---- MODULE Spec2Model ----
(***************************************************************************)
(* A model of the bestbuy inventory core: Product and its variants         *)
(* (products.py), the promotion strategies (promotions.py) and the Store   *)
(* with its order routine (store.py).                                      *)
(*                                                                         *)
(* Money is an integer number of 1/10000 currency units, so that the       *)
(* half-price and percentage arithmetic of the promotions stays exact and  *)
(* round(x, 2) is a real rounding (to a multiple of 100 units).            *)
(***************************************************************************)
EXTENDS Integers, Sequences, FiniteSets

(* ------------------------------ bounds -------------------------------- *)

\* Largest stock a product is constructed with or set to.
MaxStock == 2

\* Product objects (reference identities).
Products == {"p1", "p2"}

\* Unit prices: 0.125 and 1.00 in units of 1/10000.
Prices == {1250, 10000}

\* Quantities asked of buy.
BuyQuantities == (-1) .. (MaxStock + 1)

\* Quantities given to the quantity setter.
SetQuantities == (-1) .. MaxStock

\* Quantities on an order line.
OrderQuantities == {-1, 1, 2}

\* The shopping lists given to order: one or two lines.
Lines == Products \X OrderQuantities
ShoppingLists == {<<l>> : l \in Lines} \cup {<<l1, l2>> : l1 \in Lines, l2 \in Lines}

\* Largest quantity given to apply_promotion.
MaxApply == 5

\* Quantities given to apply_promotion.
ApplyQuantities == (-1) .. MaxApply

\* Unit prices of the products promotions are applied to: 0, 0.125, 1, 10, 100.
ApplyPrices == {0, 1250, 10000, 100000, 1000000}

\* Percentages given to PercentDiscount(name, percent).
Percents == {-10, 0, 30, 50, 100, 130}

\* The product lists of the store that is added to the model's store.
OtherStores == {<<>>, <<"p1">>, <<"p2">>, <<"p1", "p2">>, <<"p2", "p1">>}

(* --------------------------- program values --------------------------- *)

Kinds == {"Product", "NonStockedProduct", "LimitedProduct"}

\* product.promotion: None or a Promotion instance.
None == [type |-> "None", percent |-> 0]
Promotions == {[type |-> "SecondHalfPrice", percent |-> 0],
               [type |-> "ThirdOneFree", percent |-> 0],
               [type |-> "PercentDiscount", percent |-> 30]}

\* The ValueError messages of the code, by the condition that raises them.
InvalidQuantity == "The quantity should be a positive number."
InsufficientStock == "The quantity is larger than available stock."
InactiveProduct == "This product is inactive."
PurchaseLimitExceeded == "Only 1 unit can be purchased."
ProductUnavailable == "The product is not available in the store."
InvalidPromotion == "The product price cannot be zero."
InvalidPercent == "Percent should be a positive number between 0 and 100."
Ok == "ok"

VARIABLES
    kind,               \* class of each product object
    price,              \* Product._price
    quantity,           \* Product._quantity
    active,             \* Product._active
    promotion,          \* Product._promotion
    list_of_products,   \* Store._list_of_products
    last                \* the last call: operation, arguments, outcome

vars == <<kind, price, quantity, active, promotion, list_of_products, last>>

(* ------------------------------ helpers ------------------------------- *)

\* Python's round(x, 2) on a value that is exact in binary: round half to even.
Round2(x) ==
    LET q == x \div 100
        r == x % 100
    IN  IF r < 50 THEN q * 100
        ELSE IF r > 50 THEN (q + 1) * 100
        ELSE IF q % 2 = 0 THEN q * 100 ELSE (q + 1) * 100

\* Product.__eq__: two products are equal when their prices are.
ProductEq(p, q) == price[p] = price[q]

\* Python's `x in list`: some element is x or equals x.
PyIn(p, lst) == \E i \in 1 .. Len(lst) : lst[i] = p \/ ProductEq(lst[i], p)

\* Index of the first element list.remove(p) matches (0 when none).
FirstMatch(p, lst) ==
    IF PyIn(p, lst)
    THEN CHOOSE i \in 1 .. Len(lst) :
            /\ (lst[i] = p \/ ProductEq(lst[i], p))
            /\ \A j \in 1 .. (i - 1) : ~(lst[j] = p \/ ProductEq(lst[j], p))
    ELSE 0

\* list.remove(p)
ListRemove(p, lst) ==
    LET k == FirstMatch(p, lst)
    IN  [i \in 1 .. (Len(lst) - 1) |-> IF i < k THEN lst[i] ELSE lst[i + 1]]

(* ------------------------------ Product ------------------------------- *)

\* The outcome of a call on one product: the error raised (or Ok), the value
\* returned (<<>> when the call raised), and the product's fields afterwards.
Outcome(st, ret, q, a) == [status |-> st, ret |-> ret, quantity |-> q, active |-> a]

\* The quantity setter storing any number, negative ones included.
QuantitySetterUnchecked(qty, act, n) ==
    Outcome(Ok, <<>>, n, IF n = 0 THEN FALSE ELSE act)

\* The quantity setter reactivating a product that is given stock.
QuantitySetterReactivates(qty, act, n) ==
    IF n < 0 THEN Outcome(InvalidQuantity, <<>>, qty, act)
    ELSE Outcome(Ok, <<>>, n, n # 0)

\* The quantity setter.
QuantitySetter(qty, act, n) ==
    IF n < 0 THEN Outcome(InvalidQuantity, <<>>, qty, act)
    ELSE Outcome(Ok, <<>>, n, IF n = 0 THEN FALSE ELSE act)

\* Product.buy taking the units from _quantity directly, without the setter
\* that deactivates an emptied product.
ProductBuyKeepsActive(pr, qty, act, Q) ==
    IF Q <= 0 THEN Outcome(InvalidQuantity, <<>>, qty, act)
    ELSE IF Q > qty THEN Outcome(InsufficientStock, <<>>, qty, act)
    ELSE IF ~act THEN Outcome(InactiveProduct, <<>>, qty, act)
    ELSE Outcome(Ok, <<Round2(pr * Q)>>, qty - Q, act)

\* Product.buy testing the active flag before the stock.
ProductBuyActiveFirst(pr, qty, act, Q) ==
    IF Q <= 0 THEN Outcome(InvalidQuantity, <<>>, qty, act)
    ELSE IF ~act THEN Outcome(InactiveProduct, <<>>, qty, act)
    ELSE IF Q > qty THEN Outcome(InsufficientStock, <<>>, qty, act)
    ELSE LET s == QuantitySetter(qty, act, qty - Q)
         IN  Outcome(Ok, <<Round2(pr * Q)>>, s.quantity, s.active)

\* Product.buy
ProductBuy(pr, qty, act, Q) ==
    IF Q <= 0 THEN Outcome(InvalidQuantity, <<>>, qty, act)
    ELSE IF Q > qty THEN Outcome(InsufficientStock, <<>>, qty, act)
    ELSE IF ~act THEN Outcome(InactiveProduct, <<>>, qty, act)
    ELSE LET s == QuantitySetter(qty, act, qty - Q)
         IN  Outcome(Ok, <<Round2(pr * Q)>>, s.quantity, s.active)

\* NonStockedProduct.buy left to the inherited Product.buy.
NonStockedBuyInherited(pr, qty, act, Q) == ProductBuy(pr, qty, act, Q)

\* NonStockedProduct.buy
NonStockedBuy(pr, qty, act, Q) == Outcome(Ok, <<Round2(pr * Q)>>, qty, act)

\* LimitedProduct._max_purchase
MaxPurchase == 1

\* LimitedProduct.buy testing the limit after the inherited checks.
LimitedBuyLimitLast(pr, qty, act, Q) ==
    IF Q <= 0 THEN Outcome(InvalidQuantity, <<>>, qty, act)
    ELSE IF Q > qty THEN Outcome(InsufficientStock, <<>>, qty, act)
    ELSE IF ~act THEN Outcome(InactiveProduct, <<>>, qty, act)
    ELSE IF Q > MaxPurchase THEN Outcome(PurchaseLimitExceeded, <<>>, qty, act)
    ELSE ProductBuy(pr, qty, act, Q)

\* LimitedProduct.buy
LimitedBuy(pr, qty, act, Q) ==
    IF Q > MaxPurchase THEN Outcome(PurchaseLimitExceeded, <<>>, qty, act)
    ELSE ProductBuy(pr, qty, act, Q)

\* product.buy(Q), dispatched on the class of the object.
BuyOf(k, pr, qty, act, Q) ==
    CASE k = "Product" -> ProductBuy(pr, qty, act, Q)
      [] k = "NonStockedProduct" -> NonStockedBuy(pr, qty, act, Q)
      [] k = "LimitedProduct" -> LimitedBuy(pr, qty, act, Q)

(* ------------------------------- Store -------------------------------- *)

\* Store.order from line i on, with the products' fields and the running total.
RECURSIVE OrderFrom(_, _, _, _, _)
OrderFrom(lines, i, qty, act, total) ==
    IF i > Len(lines)
    THEN [status |-> Ok, ret |-> <<total>>, quantity |-> qty, active |-> act, line |-> 0]
    ELSE LET p == lines[i][1]
             Q == lines[i][2]
         IN  IF ~PyIn(p, list_of_products) \/ ~act[p]
             THEN [status |-> ProductUnavailable, ret |-> <<>>,
                   quantity |-> qty, active |-> act, line |-> i]
             ELSE LET r == BuyOf(kind[p], price[p], qty[p], act[p], Q)
                  IN  IF r.status # Ok
                      THEN [status |-> r.status, ret |-> <<>>,
                            quantity |-> qty, active |-> act, line |-> i]
                      ELSE OrderFrom(lines, i + 1,
                                     [qty EXCEPT ![p] = r.quantity],
                                     [act EXCEPT ![p] = r.active],
                                     total + r.ret[1])

\* Store.order undoing the purchases of the earlier lines when a line fails.
StoreOrderRollback(lines) ==
    LET r == OrderFrom(lines, 1, quantity, active, 0)
    IN  IF r.status = Ok THEN r
        ELSE [r EXCEPT !.quantity = quantity, !.active = active]

\* Store.order(shopping_list)
StoreOrder(lines) == OrderFrom(lines, 1, quantity, active, 0)

\* Store.total_quantity summing the active products only.
RECURSIVE TotalQuantityActive(_)
TotalQuantityActive(lst) ==
    IF lst = <<>> THEN 0
    ELSE (IF active[Head(lst)] THEN quantity[Head(lst)] ELSE 0)
         + TotalQuantityActive(Tail(lst))

\* Store.total_quantity over the list lst.
RECURSIVE TotalQuantity(_)
TotalQuantity(lst) ==
    IF lst = <<>> THEN 0 ELSE quantity[Head(lst)] + TotalQuantity(Tail(lst))

\* Store.all_products over the list lst: its active products, in order.
AllProducts(lst) == SelectSeq(lst, LAMBDA p : active[p])

\* Store.__add__: the list of the new store, from this store's list and the
\* other store's.
StoreAdd(lst, other) == lst \o AllProducts(other)

(* ----------------------------- Promotion ------------------------------ *)

\* The outcome of promotion.apply_promotion(product, quantity): no subclass
\* calls the validation of the abstract Promotion.apply_promotion.
Applied(st, ret) == [status |-> st, ret |-> ret]

\* SecondHalfPrice.apply_promotion charging the unpaired unit half price too.
SecondHalfPriceApplyOddHalf(pr, Q) ==
    LET full_price_items == Q \div 2
        half_price_items == (Q \div 2) + (Q % 2)
    IN  Applied(Ok, <<(full_price_items * pr) + (half_price_items * (pr \div 2))>>)

\* SecondHalfPrice.apply_promotion (the prices of the model are even, so
\* product.price * 0.5 is exact)
SecondHalfPriceApply(pr, Q) ==
    LET full_price_items == Q \div 2
        half_price_items == Q \div 2
        remaining_items == Q % 2
    IN  Applied(Ok, <<((full_price_items + remaining_items) * pr)
                      + (half_price_items * (pr \div 2))>>)

\* ThirdOneFree.apply_promotion
ThirdOneFreeApply(pr, Q) ==
    LET free_items == Q \div 3
        paid_items == Q - free_items
    IN  Applied(Ok, <<paid_items * pr>>)

\* PercentDiscount.apply_promotion without the test for a free product.
PercentDiscountApplyAnyPrice(percent, pr, Q) ==
    LET total_price == Q * pr
        discount_amount == (total_price * percent) \div 100
    IN  Applied(Ok, <<total_price - discount_amount>>)

\* PercentDiscount.apply_promotion (total_price * percent is a multiple of
\* 100 for the prices and percentages of the model)
PercentDiscountApply(percent, pr, Q) ==
    IF pr = 0 THEN Applied(InvalidPromotion, <<>>)
    ELSE LET total_price == Q * pr
             discount_amount == (total_price * percent) \div 100
         IN  Applied(Ok, <<total_price - discount_amount>>)

\* PercentDiscount.__init__: the promotion constructed, or the error raised.
PercentDiscountInit(percent) ==
    IF ~(0 < percent /\ percent < 100)
    THEN [status |-> InvalidPercent, promo |-> None]
    ELSE [status |-> Ok, promo |-> [type |-> "PercentDiscount", percent |-> percent]]

\* promo.apply_promotion(product, Q), dispatched on the class of promo.
PromotionApply(promo, pr, Q) ==
    CASE promo.type = "SecondHalfPrice" -> SecondHalfPriceApply(pr, Q)
      [] promo.type = "ThirdOneFree" -> ThirdOneFreeApply(pr, Q)
      [] promo.type = "PercentDiscount" -> PercentDiscountApply(promo.percent, pr, Q)

(* ------------------------------ actions ------------------------------- *)

\* The `product` of a call that is not made on one product.
NoProduct == "none"

Call(op, p, arg, lines, st, ret, line) ==
    [op |-> op, product |-> p, arg |-> arg, lines |-> lines,
     status |-> st, ret |-> ret, line |-> line]

\* Construction: Product(name, price, quantity) with valid arguments, no
\* promotion, active; NonStockedProduct has quantity 0; Store(list). The
\* first product is a stocked one at 0.125, the second of any class, at the
\* same price or another.
Init ==
    /\ kind \in [Products -> Kinds]
    /\ kind["p1"] # "NonStockedProduct"
    /\ price \in [Products -> Prices]
    /\ price["p1"] = 1250
    /\ quantity \in [Products -> 0 .. MaxStock]
    /\ \A p \in Products : kind[p] = "NonStockedProduct" => quantity[p] = 0
    /\ active = [p \in Products |-> TRUE]
    /\ promotion = [p \in Products |-> None]
    /\ list_of_products \in {<<>>, <<"p1">>, <<"p1", "p2">>}
    /\ last = Call("init", NoProduct, 0, <<>>, Ok, <<>>, 0)

\* product.buy(Q)
Buy(p, Q) ==
    LET r == BuyOf(kind[p], price[p], quantity[p], active[p], Q)
    IN  /\ quantity' = [quantity EXCEPT ![p] = r.quantity]
        /\ active' = [active EXCEPT ![p] = r.active]
        /\ last' = Call("buy", p, Q, <<>>, r.status, r.ret, 0)
        /\ UNCHANGED <<kind, price, promotion, list_of_products>>

\* product.quantity = n
SetQuantity(p, n) ==
    LET r == QuantitySetter(quantity[p], active[p], n)
    IN  /\ quantity' = [quantity EXCEPT ![p] = r.quantity]
        /\ active' = [active EXCEPT ![p] = r.active]
        /\ last' = Call("set_quantity", p, n, <<>>, r.status, r.ret, 0)
        /\ UNCHANGED <<kind, price, promotion, list_of_products>>

\* product.activate()
Activate(p) ==
    /\ active' = [active EXCEPT ![p] = TRUE]
    /\ last' = Call("activate", p, 0, <<>>, Ok, <<>>, 0)
    /\ UNCHANGED <<kind, price, quantity, promotion, list_of_products>>

\* product.deactivate()
Deactivate(p) ==
    /\ active' = [active EXCEPT ![p] = FALSE]
    /\ last' = Call("deactivate", p, 0, <<>>, Ok, <<>>, 0)
    /\ UNCHANGED <<kind, price, quantity, promotion, list_of_products>>

\* product.promotion = promo
SetPromotion(p, promo) ==
    /\ promotion' = [promotion EXCEPT ![p] = promo]
    /\ last' = Call("set_promotion", p, 0, <<>>, Ok, <<>>, 0)
    /\ UNCHANGED <<kind, price, quantity, active, list_of_products>>

\* product.promotion.apply_promotion(product, Q), as the shell calls it when
\* the product has a promotion.
ApplyPromotion(p, Q) ==
    /\ promotion[p] # None
    /\ LET r == PromotionApply(promotion[p], price[p], Q)
       IN  last' = Call("apply_promotion", p, Q, <<>>, r.status, r.ret, 0)
    /\ UNCHANGED <<kind, price, quantity, active, promotion, list_of_products>>

\* product.promotion = PercentDiscount(name, percent), as main sets it up.
NewPercentDiscount(p, percent) ==
    LET r == PercentDiscountInit(percent)
    IN  /\ promotion' = IF r.status = Ok
                        THEN [promotion EXCEPT ![p] = r.promo]
                        ELSE promotion
        /\ last' = Call("PercentDiscount", p, percent, <<>>, r.status, <<>>, 0)
        /\ UNCHANGED <<kind, price, quantity, active, list_of_products>>

\* store.add_product(p)
AddProduct(p) ==
    /\ list_of_products' = IF ~PyIn(p, list_of_products)
                           THEN Append(list_of_products, p)
                           ELSE list_of_products
    /\ last' = Call("add_product", p, 0, <<>>, Ok, <<>>, 0)
    /\ UNCHANGED <<kind, price, quantity, active, promotion>>

\* store.remove_product(p)
RemoveProduct(p) ==
    /\ list_of_products' = IF PyIn(p, list_of_products)
                           THEN ListRemove(p, list_of_products)
                           ELSE list_of_products
    /\ last' = Call("remove_product", p, 0, <<>>, Ok, <<>>, 0)
    /\ UNCHANGED <<kind, price, quantity, active, promotion>>

\* store.order(lines)
Order(lines) ==
    LET r == StoreOrder(lines)
    IN  /\ quantity' = r.quantity
        /\ active' = r.active
        /\ last' = Call("order", NoProduct, 0, lines, r.status, r.ret, r.line)
        /\ UNCHANGED <<kind, price, promotion, list_of_products>>

\* store.total_quantity
GetTotalQuantity ==
    /\ last' = Call("total_quantity", NoProduct, 0, <<>>, Ok,
                    <<TotalQuantity(list_of_products)>>, 0)
    /\ UNCHANGED <<kind, price, quantity, active, promotion, list_of_products>>

\* store + Store(other): the new store's list is the value returned.
AddStores(other) ==
    /\ last' = Call("__add__", NoProduct, 0, other, Ok,
                    <<StoreAdd(list_of_products, other)>>, 0)
    /\ UNCHANGED <<kind, price, quantity, active, promotion, list_of_products>>

\* The products and the store: every operation but the promotions.
Next ==
    \/ \E p \in Products, Q \in BuyQuantities : Buy(p, Q)
    \/ \E p \in Products, n \in SetQuantities : SetQuantity(p, n)
    \/ \E p \in Products : Activate(p)
    \/ \E p \in Products : Deactivate(p)
    \/ \E p \in Products : AddProduct(p)
    \/ \E p \in Products : RemoveProduct(p)
    \/ \E lines \in ShoppingLists : Order(lines)

Spec == Init /\ [][Next]_vars

\* The catalog and its views: every operation on the products and the
\* store's list, without orders.
NextStores ==
    \/ \E p \in Products, Q \in BuyQuantities : Buy(p, Q)
    \/ \E p \in Products, n \in SetQuantities : SetQuantity(p, n)
    \/ \E p \in Products : Activate(p)
    \/ \E p \in Products : Deactivate(p)
    \/ \E p \in Products : AddProduct(p)
    \/ \E p \in Products : RemoveProduct(p)
    \/ GetTotalQuantity
    \/ \E other \in OtherStores : AddStores(other)

SpecStores == Init /\ [][NextStores]_vars

\* Purchases only, from construction.
NextPurchases ==
    \/ \E p \in Products, Q \in BuyQuantities : Buy(p, Q)
    \/ \E lines \in ShoppingLists : Order(lines)

SpecPurchases == Init /\ [][NextPurchases]_vars

\* Products with promotions: a store holding both products, the first of any
\* class and price (a free product included), the second a Product.
InitPromotion ==
    /\ kind \in [Products -> Kinds]
    /\ kind["p2"] = "Product"
    /\ price \in [Products -> Prices \cup {0}]
    /\ price["p2"] = 10000
    /\ quantity = [p \in Products |->
                     IF kind[p] = "NonStockedProduct" THEN 0 ELSE MaxStock]
    /\ active = [p \in Products |-> TRUE]
    /\ promotion = [p \in Products |-> None]
    /\ list_of_products = <<"p1", "p2">>
    /\ last = Call("init", NoProduct, 0, <<>>, Ok, <<>>, 0)

NextPromotion ==
    \/ \E p \in Products, promo \in Promotions \cup {None} : SetPromotion(p, promo)
    \/ \E p \in Products, Q \in BuyQuantities : ApplyPromotion(p, Q)
    \/ \E p \in Products, Q \in BuyQuantities : Buy(p, Q)
    \/ \E lines \in ShoppingLists : Order(lines)

SpecPromotion == InitPromotion /\ [][NextPromotion]_vars

\* The promotions alone: products of every price, promotions attached and
\* applied to any quantity.
InitApply ==
    /\ kind \in [Products -> Kinds]
    /\ kind["p2"] = "Product"
    /\ price \in [Products -> ApplyPrices]
    /\ price["p2"] = 10000
    /\ quantity = [p \in Products |->
                     IF kind[p] = "NonStockedProduct" THEN 0 ELSE MaxStock]
    /\ active = [p \in Products |-> TRUE]
    /\ promotion = [p \in Products |-> None]
    /\ list_of_products = <<"p1", "p2">>
    /\ last = Call("init", NoProduct, 0, <<>>, Ok, <<>>, 0)

NextApply ==
    \/ \E p \in Products, promo \in Promotions \cup {None} : SetPromotion(p, promo)
    \/ \E p \in Products, percent \in Percents : NewPercentDiscount(p, percent)
    \/ \E p \in Products, Q \in ApplyQuantities : ApplyPromotion(p, Q)

SpecApply == InitApply /\ [][NextApply]_vars

(* ------------------------------ claims -------------------------------- *)

\* The call recorded by this step, and the product it was made on.
IsCall(op) == last'.op = op
BuyOn(p) == IsCall("buy") /\ last'.product = p
Stocked(p) == kind[p] \in {"Product", "LimitedProduct"}

\* x is y rounded to two decimals: a whole number of cents nearest to y.
RoundedToCents(x, y) == x % 100 = 0 /\ 2 * (x - y) <= 100 /\ 2 * (y - x) <= 100

\* The product object p is held by the catalog (reference identity).
Held(p, lst) == \E i \in 1 .. Len(lst) : lst[i] = p

\* What the first n lines of a shopping list ask of product p.
RECURSIVE Bought(_, _, _)
Bought(lines, p, n) ==
    IF n = 0 THEN 0
    ELSE Bought(lines, p, n - 1) + (IF lines[n][1] = p THEN lines[n][2] ELSE 0)

\* C1: on an active Product with no promotion and stock S, buy(Q) with
\* 1 <= Q <= S returns price * Q rounded to two decimals, leaves stock at
\* S - Q, and the product is inactive afterwards exactly when S - Q = 0.
C1_BuyValidQuantity ==
    [][\A p \in Products :
        (/\ BuyOn(p)
         /\ kind[p] = "Product" /\ promotion[p] = None /\ active[p]
         /\ 1 <= last'.arg /\ last'.arg <= quantity[p])
        => (/\ last'.status = Ok
            /\ Len(last'.ret) = 1
            /\ RoundedToCents(last'.ret[1], price[p] * last'.arg)
            /\ quantity'[p] = quantity[p] - last'.arg
            /\ (~active'[p] <=> quantity[p] - last'.arg = 0))]_vars

\* C1 witness: one unit at 0.125 bought from a Product holding exactly one:
\* 0.12 is charged and the product is left empty and inactive.
C1_Witness ==
    /\ last.op = "buy" /\ last.status = Ok /\ last.arg = 1
    /\ kind[last.product] = "Product" /\ promotion[last.product] = None
    /\ price[last.product] = 1250 /\ last.ret = <<1200>>
    /\ quantity[last.product] = 0 /\ ~active[last.product]

\* C2 (as claimed): on a Product or LimitedProduct with stock S, buy(Q) with
\* Q > S fails with the insufficient-stock error and changes neither stock
\* nor active flag, also as the first line of an order.
C2_InsufficientStockAsClaimed ==
    [][\A p \in Products :
        (/\ Stocked(p)
         /\ \/ BuyOn(p) /\ last'.arg > quantity[p]
            \/ /\ IsCall("order")
               /\ last'.lines[1][1] = p /\ last'.lines[1][2] > quantity[p])
        => (/\ last'.status = InsufficientStock
            /\ quantity' = quantity /\ active' = active)]_vars

\* C2 (amended): buy(Q) with Q > S fails with the insufficient-stock error on
\* a Product, and on a LimitedProduct when Q <= 1; on a LimitedProduct with
\* Q > 1 it fails with the purchase-limit error. As the first line of an
\* order the same error is raised when the product is held by the catalog
\* and active, and the product-unavailable error when the product is
\* inactive. In every case stock and active flag of all products are unchanged.
C2_InsufficientStock ==
    [][\A p \in Products :
        LET Q == IF IsCall("order") THEN last'.lines[1][2] ELSE last'.arg
            limited == kind[p] = "LimitedProduct" /\ Q > 1
            expected == IF limited THEN PurchaseLimitExceeded ELSE InsufficientStock
        IN  (/\ Stocked(p)
             /\ Q > quantity[p]
             /\ \/ BuyOn(p)
                \/ IsCall("order") /\ last'.lines[1][1] = p
                   /\ (Held(p, list_of_products) \/ ~active[p]))
            => (/\ last'.status = IF IsCall("order") /\ ~active[p]
                                  THEN ProductUnavailable ELSE expected
                /\ last'.ret = <<>>
                /\ quantity' = quantity /\ active' = active)]_vars

\* C2 witness: an order whose first line asks one unit of a held, active
\* LimitedProduct with no stock fails with the insufficient-stock error.
C2_Witness ==
    /\ last.op = "order" /\ last.status = InsufficientStock /\ last.line = 1
    /\ kind[last.lines[1][1]] = "LimitedProduct" /\ last.lines[1][2] = 1
    /\ Held(last.lines[1][1], list_of_products)
    /\ active[last.lines[1][1]] /\ quantity[last.lines[1][1]] = 0

\* C3: the price buy(Q) returns, and so the total of an order of that one
\* line, is promotion.apply_promotion(product, Q) when a promotion is
\* attached, and round(price * Q, 2) only when none is.
C3_BuyAppliesPromotion ==
    [][\A p \in Products :
        LET Q == IF IsCall("order") THEN last'.lines[1][2] ELSE last'.arg
        IN  (/\ last'.status = Ok
             /\ \/ BuyOn(p)
                \/ IsCall("order") /\ last'.lines = <<(<<p, Q>>)>>)
            => last'.ret = IF promotion[p] # None
                           THEN PromotionApply(promotion[p], price[p], Q).ret
                           ELSE <<Round2(price[p] * Q)>>]_vars

\* C4: when an order fails at line k, the purchases of lines 1 .. k-1 stay
\* applied (stock decremented, emptied products deactivated), nothing else
\* has changed, no total is returned, and the error is the one line k raises
\* in the state the order leaves behind.
C4_OrderNoRollback ==
    [][(IsCall("order") /\ last'.status # Ok) =>
        LET lines == last'.lines
            k == last'.line
        IN  /\ k \in 1 .. Len(lines)
            /\ last'.ret = <<>>
            /\ \A p \in Products :
                LET n == Bought(lines, p, k - 1)
                    ordered == \E i \in 1 .. (k - 1) : lines[i][1] = p
                IN  IF Stocked(p)
                    THEN /\ quantity'[p] = quantity[p] - n
                         /\ active'[p] =
                              (active[p] /\ ~(ordered /\ quantity[p] - n = 0))
                    ELSE quantity'[p] = quantity[p] /\ active'[p] = active[p]
            /\ last'.status =
                 OrderFrom(<<lines[k]>>, 1, quantity', active', 0).status]_vars

\* C4 witness: an order of two lines on two different Products whose second
\* line fails after the first was bought.
C4_Witness ==
    /\ last.op = "order" /\ last.status = InsufficientStock /\ last.line = 2
    /\ last.lines[1][1] # last.lines[2][1]
    /\ kind[last.lines[1][1]] = "Product" /\ kind[last.lines[2][1]] = "Product"
    /\ last.lines[1][2] = 2 /\ quantity[last.lines[1][1]] = 0
    /\ ~active[last.lines[1][1]]

\* C5: an order line whose product object is not held by the catalog, or
\* whose product is inactive, fails with the product-unavailable error
\* before buy is called: no stock and no active flag changes.
C5_OrderRejectsUnheld ==
    [][\A p \in Products :
        (/\ IsCall("order") /\ last'.lines[1][1] = p
         /\ (~Held(p, list_of_products) \/ ~active[p]))
        => (/\ last'.status = ProductUnavailable
            /\ quantity' = quantity /\ active' = active)]_vars

\* C6: remove_product(p) removes exactly the object p from a catalog that
\* holds it, keeping the other products in order, and changes nothing in a
\* catalog that does not hold p.
C6_RemoveByReference ==
    [][\A p \in Products :
        (IsCall("remove_product") /\ last'.product = p)
        => list_of_products' = SelectSeq(list_of_products, LAMBDA x : x # p)]_vars

\* C7: add_product(p) appends p to a catalog that does not hold the object p
\* and changes nothing in one that does; p is held afterwards.
C7_AddByReference ==
    [][\A p \in Products :
        (IsCall("add_product") /\ last'.product = p)
        => (/\ list_of_products' = IF Held(p, list_of_products)
                                   THEN list_of_products
                                   ELSE Append(list_of_products, p)
            /\ Held(p, list_of_products'))]_vars

\* C8: on a LimitedProduct buy(Q) with Q > 1 fails with the purchase-limit
\* error whatever the stock and the active flag, changing neither; buy(1) on
\* an active one with stock >= 1 succeeds, charges the rounded unit price and
\* takes one unit, deactivating the product when it was the last.
C8_LimitedProduct ==
    [][\A p \in Products :
        (BuyOn(p) /\ kind[p] = "LimitedProduct") =>
            /\ last'.arg > 1 =>
                 (/\ last'.status = PurchaseLimitExceeded /\ last'.ret = <<>>
                  /\ quantity' = quantity /\ active' = active)
            /\ (last'.arg = 1 /\ active[p] /\ quantity[p] >= 1) =>
                 (/\ last'.status = Ok
                  /\ Len(last'.ret) = 1
                  /\ RoundedToCents(last'.ret[1], price[p])
                  /\ quantity'[p] = quantity[p] - 1
                  /\ (~active'[p] <=> quantity[p] = 1))]_vars

\* C8 witness: buy(2) refused for the limit on a LimitedProduct that is
\* inactive and out of stock.
C8_Witness ==
    /\ last.op = "buy" /\ last.arg = 2 /\ last.status = PurchaseLimitExceeded
    /\ kind[last.product] = "LimitedProduct"
    /\ quantity[last.product] = 0 /\ ~active[last.product]

\* C9: buy(Q) with Q > 0 on a NonStockedProduct succeeds, and no buy and no
\* order changes the stock counter or the active flag of a NonStockedProduct:
\* after any sequence of purchases its stock is still 0 and it is still active.
C9_NonStockedProduct ==
    /\ [](\A p \in Products :
            kind[p] = "NonStockedProduct" => quantity[p] = 0 /\ active[p])
    /\ [][\A p \in Products :
            kind[p] = "NonStockedProduct" =>
                /\ (BuyOn(p) /\ last'.arg > 0) =>
                     (last'.status = Ok /\ Len(last'.ret) = 1)
                /\ quantity'[p] = quantity[p] /\ active'[p] = active[p]]_vars

\* C9 witness: a NonStockedProduct bought directly, more units than any
\* stock of the model, and still at stock 0 and active.
C9_Witness ==
    /\ last.op = "buy" /\ last.arg = MaxStock + 1 /\ last.status = Ok
    /\ kind[last.product] = "NonStockedProduct"
    /\ quantity[last.product] = 0 /\ active[last.product]

\* C10: buy(Q) with Q <= 0 fails with the invalid-quantity error on every
\* class of product, returning no price and changing nothing; every price
\* buy returns and every total order returns is non-negative.
C10_InvalidQuantity ==
    [][/\ \A p \in Products :
            (BuyOn(p) /\ last'.arg <= 0) =>
                (/\ last'.status = InvalidQuantity /\ last'.ret = <<>>
                 /\ quantity' = quantity /\ active' = active)
       /\ (IsCall("buy") \/ IsCall("order")) =>
            \A i \in 1 .. Len(last'.ret) : last'.ret[i] >= 0]_vars

\* C11: every promotion strategy rejects a negative quantity: apply_promotion
\* with quantity < 0 fails with the invalid-quantity error and returns no total.
C11_PromotionValidatesQuantity ==
    (last.op = "apply_promotion" /\ last.arg < 0)
        => (last.status = InvalidQuantity /\ last.ret = <<>>)

\* How often the catalog holds the product object p.
Count(p, lst) == Cardinality({i \in 1 .. Len(lst) : lst[i] = p})

\* The stock counters of the products of S, each as often as the catalog
\* holds it, added up.
RECURSIVE HeldStock(_)
HeldStock(S) ==
    IF S = {} THEN 0
    ELSE LET p == CHOOSE x \in S : TRUE
         IN  quantity[p] * Count(p, list_of_products) + HeldStock(S \ {p})

\* C12 (as claimed): every inactive product held by the catalog has stock 0,
\* and total_quantity is the sum of the stock counters of all held products.
C12_InactiveHaveNoStock ==
    /\ \A p \in Products :
        (Held(p, list_of_products) /\ ~active[p]) => quantity[p] = 0
    /\ last.op = "total_quantity" => last.ret = <<HeldStock(Products)>>

\* C12 (amended): total_quantity is the sum of the stock counters of all
\* held products, active or not; an inactive product contributes its stock
\* counter, which need not be 0.
C12_TotalQuantity ==
    last.op = "total_quantity" =>
        (last.status = Ok /\ last.ret = <<HeldStock(Products)>>)

\* C12 witness: total_quantity taken of a catalog holding an inactive product
\* with stock, which the total includes.
C12_Witness ==
    /\ last.op = "total_quantity"
    /\ \E p \in Products :
        /\ Held(p, list_of_products) /\ ~active[p] /\ quantity[p] = MaxStock
        /\ \A q \in Products \ {p} : ~Held(q, list_of_products)
        /\ last.ret = <<MaxStock>>

\* C13: the stock counter of every product is non-negative in every
\* reachable state, and a stock-set with a negative value fails with the
\* invalid-quantity error, leaving stock and active flag unchanged.
C13_StockNonNegative ==
    /\ [](\A p \in Products : quantity[p] >= 0)
    /\ [][(IsCall("set_quantity") /\ last'.arg < 0) =>
            (/\ last'.status = InvalidQuantity
             /\ quantity' = quantity /\ active' = active)]_vars

\* C13 witness: a stock-set to -1 refused on a product that keeps its stock.
C13_Witness ==
    /\ last.op = "set_quantity" /\ last.arg = -1
    /\ last.status = InvalidQuantity
    /\ quantity[last.product] = MaxStock /\ active[last.product]

\* The call recorded by this step is apply_promotion on product p, whose
\* promotion is of the given class.
ApplyOn(p, type) ==
    IsCall("apply_promotion") /\ last'.product = p /\ promotion[p].type = type

\* C14: SecondHalfPrice.apply_promotion with unit price pr and quantity
\* Q >= 0 returns (Q div 2) * pr * 0.5 + ((Q div 2) + (Q mod 2)) * pr (twice
\* that is compared, to stay in whole numbers); price 10 and quantity 5 give
\* 40; the call changes no product, promotion or catalog state.
C14_SecondHalfPrice ==
    [][\A p \in Products :
        (ApplyOn(p, "SecondHalfPrice") /\ last'.arg >= 0) =>
            LET Q == last'.arg
                pairs == Q \div 2
                remainder == Q % 2
            IN  /\ last'.status = Ok
                /\ Len(last'.ret) = 1
                /\ 2 * last'.ret[1] = pairs * price[p] + 2 * (pairs + remainder) * price[p]
                /\ (price[p] = 100000 /\ Q = 5) => last'.ret = <<400000>>
                /\ UNCHANGED <<kind, price, quantity, active, promotion,
                               list_of_products>>]_vars

\* C14 witness: the promotion applied to five units at 10.00, giving 40.00.
C14_Witness ==
    /\ last.op = "apply_promotion" /\ last.arg = 5 /\ last.status = Ok
    /\ promotion[last.product].type = "SecondHalfPrice"
    /\ price[last.product] = 100000 /\ last.ret = <<400000>>

\* C15: PercentDiscount.apply_promotion fails with the invalid-promotion
\* error exactly when the unit price is 0, whatever the quantity, and
\* otherwise returns quantity * price * (1 - percent/100) (a hundred times
\* that is compared); price 100, quantity 2 and 30 percent give 140; and
\* PercentDiscount(name, percent) is constructed exactly when 0 < percent < 100,
\* so that every percentage discount attached to a product is in that range.
C15_PercentDiscount ==
    [][\A p \in Products :
        /\ ApplyOn(p, "PercentDiscount") =>
             LET Q == last'.arg
                 percent == promotion[p].percent
             IN  /\ last'.status = InvalidPromotion <=> price[p] = 0
                 /\ price[p] = 0 => last'.ret = <<>>
                 /\ price[p] # 0 =>
                      /\ last'.status = Ok
                      /\ Len(last'.ret) = 1
                      /\ 100 * last'.ret[1] = Q * price[p] * (100 - percent)
                 /\ (price[p] = 1000000 /\ Q = 2 /\ percent = 30)
                      => last'.ret = <<1400000>>
        /\ (IsCall("PercentDiscount") /\ last'.product = p) =>
             LET percent == last'.arg
             IN  /\ last'.status = Ok <=> (0 < percent /\ percent < 100)
                 /\ last'.status = Ok =>
                      promotion'[p] = [type |-> "PercentDiscount", percent |-> percent]
                 /\ last'.status # Ok =>
                      (last'.status = InvalidPercent /\ promotion' = promotion)
        /\ promotion'[p].type = "PercentDiscount" =>
             (0 < promotion'[p].percent /\ promotion'[p].percent < 100)]_vars

\* C15 witness: 30 percent off applied to two units at 100.00, giving 140.00.
C15_Witness ==
    /\ last.op = "apply_promotion" /\ last.arg = 2 /\ last.status = Ok
    /\ promotion[last.product] = [type |-> "PercentDiscount", percent |-> 30]
    /\ price[last.product] = 1000000 /\ last.ret = <<1400000>>

\* C16: a product goes from active to inactive only in a deactivate of it or
\* in a buy, a stock-set or an order that leaves its stock at zero; it goes
\* from inactive to active only in an activate of it, which leaves every
\* stock counter unchanged; a stock-set to a positive value on an inactive
\* product stores the value and leaves the product inactive.
C16_ActiveFlag ==
    [][\A p \in Products :
        /\ (active[p] /\ ~active'[p]) =>
             \/ IsCall("deactivate") /\ last'.product = p
             \/ /\ \/ (IsCall("buy") \/ IsCall("set_quantity")) /\ last'.product = p
                   \/ IsCall("order")
                /\ quantity'[p] = 0
        /\ (~active[p] /\ active'[p]) => (IsCall("activate") /\ last'.product = p)
        /\ IsCall("activate") => quantity' = quantity
        /\ (IsCall("set_quantity") /\ last'.product = p /\ last'.arg > 0 /\ ~active[p]) =>
             (~active'[p] /\ quantity'[p] = last'.arg /\ last'.status = Ok)]_vars

\* C16 witness: a positive stock was just set on a product that stays inactive.
C16_Witness ==
    /\ last.op = "set_quantity" /\ last.arg > 0 /\ last.status = Ok
    /\ last.product \in Products
    /\ ~active[last.product] /\ quantity[last.product] = last.arg

\* C17: storeA + storeB returns every product of storeA followed by every
\* product of storeB, active or inactive, and modifies neither collection.
C17_AddKeepsEveryProduct ==
    [][IsCall("__add__") =>
        /\ last'.ret = <<list_of_products \o last'.lines>>
        /\ \A p \in Products :
             (Count(p, list_of_products) > 0 \/ Count(p, last'.lines) > 0)
                 => Count(p, last'.ret[1]) > 0
        /\ list_of_products' = list_of_products]_vars

====
